---- MODULE Spec2Model ----
(***************************************************************************)
(* The family relationship chatbot of src/main.py: a Prolog knowledge base *)
(* (the fact store), the statement handlers that validate and assert       *)
(* facts, the question handlers that query it, and the conversation loop   *)
(* that reads one input at a time.                                         *)
(*                                                                         *)
(* The knowledge base is the clause database of the Prolog engine.         *)
(* assertz appends a clause whether or not an equal clause is present, so  *)
(* each predicate is a bag of argument tuples.  The rules of chat.pl       *)
(* (grandparent, related and the gendered relations) are not part of src/  *)
(* and are written here from the specification's section 4.2.              *)
(***************************************************************************)
EXTENDS Naturals, Sequences, FiniteSets, Bags, TLC

\* ------------------------------------------------------------------ bounds

\* Statements are read while the knowledge base holds fewer clauses than this.
MaxClauses == 3

\* The longest list of children in a "... are children of P." statement.
MaxChildren == 3

\* In the sessions of ChainSpec, statements are read while the knowledge base
\* holds fewer clauses than this.
MaxChainClauses == 4

\* In the sessions of AskSpec, statements are read while the knowledge base
\* holds fewer clauses than this, and yes/no questions while it holds no more.
MaxAskClauses == 3

\* ------------------------------------------------------------------ names

\* Lower-case texts that read as a Prolog atom.
People == {"ann", "bob", "cy", "di"}

\* Name slots as the user types them: two spellings of one person, three
\* other people, and a name of two words.
RawNames == {"Ann", "ANN", "Bob", "Cy", "Di", "Mary Ann"}

\* The names the lists of children are drawn from: three people and the name
\* of two words.  A list may repeat a name; the parent is any raw name.
ChildNames == {"Ann", "Bob", "Cy", "Mary Ann"}

\* A name slot that ends in a question mark.
MarkedNames == {"Bob?"}

\* str.strip().rstrip('.').lower().capitalize() on the raw names, and
\* str.capitalize() on the lower-case ones.
capitalize(raw) ==
    CASE raw \in {"Ann", "ANN", "ann"} -> "Ann"
      [] raw \in {"Bob", "bob"} -> "Bob"
      [] raw \in {"Cy", "cy"} -> "Cy"
      [] raw \in {"Di", "di"} -> "Di"
      [] raw \in {"Mary Ann", "mary ann"} -> "Mary ann"
      [] raw = "Bob?" -> "Bob?"

\* str.lower() on a raw, capitalized or lower-case name.
lower(name) ==
    CASE name \in {"Ann", "ANN", "ann"} -> "ann"
      [] name \in {"Bob", "bob"} -> "bob"
      [] name \in {"Cy", "cy"} -> "cy"
      [] name \in {"Di", "di"} -> "di"
      [] name \in {"Mary ann", "Mary Ann", "mary ann"} -> "mary ann"
      [] name \in {"Bob?", "bob?"} -> "bob?"
      [] name \in {"quit", "quit."} -> name
      [] name = "EXIT" -> "exit"
      [] name = "why?" -> "why?"

\* str.strip() on a whole input line.
strip(text) == IF text = " EXIT " THEN "EXIT" ELSE text

\* The text parses as one Prolog term (an atom); "mary ann" and "bob?" do not.
IsTerm(text) == text \in People

\* ------------------------------------------------------------------ outputs

Learned == "OK! I learned something."
Impossible == "That's impossible!"
InvalidStatement == "Invalid statement. Please follow the sentence patterns."
Raised == "raised"
Yes == "Yes!"
No == "No!"
InvalidQuestion == "Invalid question. Please follow the sentence patterns."
NoOutput == "none"

\* ------------------------------------------------------------------ state

VARIABLES
    kb,     \* the Prolog clause database: predicate name -> bag of argument tuples
    pc,     \* position of start_conversation: "prompt", "answered" or "done"
    stmt,   \* the input line just processed (kind and raw name slots)
    out     \* the line printed for it

vars == <<kb, pc, stmt, out>>

Preds == {"male", "female", "parent", "sibling", "pibling", "grandparent"}

EmptyKb == [p \in Preds |-> EmptyBag]

NoStmt == [kind |-> "none", names |-> <<>>]

\* Number of clauses in the database.
Clauses(k) ==
    BagCardinality(k.male) + BagCardinality(k.female) + BagCardinality(k.parent)
    + BagCardinality(k.sibling) + BagCardinality(k.pibling)
    + BagCardinality(k.grandparent)

\* ------------------------------------------------------------------ chat.pl

\* A stored clause pred(args).
Stored(k, pred, args) == BagIn(args, k[pred])

\* grandparent(X,Z): an asserted grandparent fact, or parent(X,Y), parent(Y,Z).
grandparent(k, x, z) ==
    \/ Stored(k, "grandparent", <<x, z>>)
    \/ \E y \in People : Stored(k, "parent", <<x, y>>) /\ Stored(k, "parent", <<y, z>>)

\* One parent, sibling or pibling edge between x and y, in either direction.
Linked(k, x, y) ==
    \E p \in {"parent", "sibling", "pibling"} :
        Stored(k, p, <<x, y>>) \/ Stored(k, p, <<y, x>>)

RECURSIVE Reach(_, _)
Reach(k, seen) ==
    LET more == {y \in People \ seen : \E x \in seen : Linked(k, x, y)}
    IN  IF more = {} THEN seen ELSE Reach(k, seen \cup more)

\* related(X,Y): X and Y are distinct and joined by a path of such edges.
related(k, x, y) == x # y /\ y \in Reach(k, {x})

\* father(X,Y): parent(X,Y), male(X).
father_2(k, x, y) == Stored(k, "parent", <<x, y>>) /\ Stored(k, "male", <<x>>)

\* mother(X,Y): parent(X,Y), female(X).
mother_2(k, x, y) == Stored(k, "parent", <<x, y>>) /\ Stored(k, "female", <<x>>)

\* son(X,Y): parent(Y,X), male(X).
son_2(k, x, y) == Stored(k, "parent", <<y, x>>) /\ Stored(k, "male", <<x>>)

\* daughter(X,Y): parent(Y,X), female(X).
daughter_2(k, x, y) == Stored(k, "parent", <<y, x>>) /\ Stored(k, "female", <<x>>)

\* brother(X,Y): sibling(X,Y), male(X).
brother_2(k, x, y) == Stored(k, "sibling", <<x, y>>) /\ Stored(k, "male", <<x>>)

\* sister(X,Y): sibling(X,Y), female(X).
sister_2(k, x, y) == Stored(k, "sibling", <<x, y>>) /\ Stored(k, "female", <<x>>)

\* grandmother(X,Z): grandparent(X,Z), female(X).
grandmother_2(k, x, z) == grandparent(k, x, z) /\ Stored(k, "female", <<x>>)

\* grandfather(X,Z): grandparent(X,Z), male(X).
grandfather_2(k, x, z) == grandparent(k, x, z) /\ Stored(k, "male", <<x>>)

\* aunt(X,Y): pibling(X,Y), female(X).
aunt_2(k, x, y) == Stored(k, "pibling", <<x, y>>) /\ Stored(k, "female", <<x>>)

\* uncle(X,Y): pibling(X,Y), male(X).
uncle_2(k, x, y) == Stored(k, "pibling", <<x, y>>) /\ Stored(k, "male", <<x>>)

\* The answer of the engine to the goal pred(args) on atoms.
Solve(k, pred, args) ==
    CASE pred = "related" -> related(k, args[1], args[2])
      [] pred = "grandparent" -> grandparent(k, args[1], args[2])
      [] pred = "father" -> father_2(k, args[1], args[2])
      [] pred = "mother" -> mother_2(k, args[1], args[2])
      [] pred = "son" -> son_2(k, args[1], args[2])
      [] pred = "daughter" -> daughter_2(k, args[1], args[2])
      [] pred = "brother" -> brother_2(k, args[1], args[2])
      [] pred = "sister" -> sister_2(k, args[1], args[2])
      [] pred = "grandmother" -> grandmother_2(k, args[1], args[2])
      [] pred = "grandfather" -> grandfather_2(k, args[1], args[2])
      [] pred = "aunt" -> aunt_2(k, args[1], args[2])
      [] pred = "uncle" -> uncle_2(k, args[1], args[2])
      [] OTHER -> Stored(k, pred, args)

\* ------------------------------------------------------------------ engine calls

\* prolog_engine.assertz after the asserts that led to r: a text that is not
\* a term raises, and nothing after it in the handler runs.
assertz(r, pred, args) ==
    IF r.raised THEN r
    ELSE IF \A i \in DOMAIN args : IsTerm(args[i])
         THEN [kb |-> [r.kb EXCEPT ![pred] = @ (+) SetToBag({args})], raised |-> FALSE]
         ELSE [r EXCEPT !.raised = TRUE]

Begin(k) == [kb |-> k, raised |-> FALSE]

\* The handler's last line: print("OK! I learned something."), unless an
\* assertz raised before it.
Finish(r) == [kb |-> r.kb, out |-> IF r.raised THEN Raised ELSE Learned]

Reject(k) == [kb |-> k, out |-> Impossible]

_is_fact_provable(k, pred, args) ==
    IF \A i \in DOMAIN args : IsTerm(args[i]) THEN Solve(k, pred, args) ELSE FALSE

_extract_names_from_statement(names) == <<capitalize(names[1]), capitalize(names[2])>>

\* _has_gender_conflict looking up the gender being asserted instead of the
\* opposite one.
_has_gender_conflict_same(k, person_name, expected_gender) ==
    _is_fact_provable(k, expected_gender, <<lower(person_name)>>)

_has_gender_conflict(k, person_name, expected_gender) ==
    LET opposite_gender == IF expected_gender = "male" THEN "female" ELSE "male"
    IN  _is_fact_provable(k, opposite_gender, <<lower(person_name)>>)

\* _are_persons_related answering from one stored parent, sibling or pibling
\* fact between the two, without following a path.
_are_persons_related_one_edge(k, person1, person2) ==
    /\ IsTerm(lower(person1))
    /\ IsTerm(lower(person2))
    /\ lower(person1) # lower(person2)
    /\ Linked(k, lower(person1), lower(person2))

_are_persons_related(k, person1, person2) ==
    _is_fact_provable(k, "related", <<lower(person1), lower(person2)>>)

\* _would_create_circular_relationship looking only for the direct fact
\* parent(parent, child) instead of asking related.
_would_create_circular_relationship_direct(k, child, parent) ==
    _is_fact_provable(k, "parent", <<lower(parent), lower(child)>>)

_would_create_circular_relationship(k, child, parent) ==
    _are_persons_related(k, parent, child)

_would_create_invalid_parent_child_relationship(k, child, parent) ==
    LET is_child_ancestor_of_parent ==
            \/ _is_fact_provable(k, "parent", <<lower(child), lower(parent)>>)
            \/ _is_fact_provable(k, "grandparent", <<lower(child), lower(parent)>>)
        existing_relationship ==
            _is_fact_provable(k, "parent", <<lower(parent), lower(child)>>)
    IN  is_child_ancestor_of_parent /\ ~existing_relationship

\* _would_create_invalid_sibling_relationship without its grandparent check.
_would_create_invalid_sibling_relationship_parent_only(k, person1, person2) ==
    \/ _is_fact_provable(k, "parent", <<lower(person1), lower(person2)>>)
    \/ _is_fact_provable(k, "parent", <<lower(person2), lower(person1)>>)

\* _would_create_invalid_sibling_relationship asking parent and grandparent
\* only in the order (person1, person2).
_would_create_invalid_sibling_relationship_one_order(k, person1, person2) ==
    \/ _is_fact_provable(k, "parent", <<lower(person1), lower(person2)>>)
    \/ _is_fact_provable(k, "grandparent", <<lower(person1), lower(person2)>>)

_would_create_invalid_sibling_relationship(k, person1, person2) ==
    LET is_parent_child ==
            \/ _is_fact_provable(k, "parent", <<lower(person1), lower(person2)>>)
            \/ _is_fact_provable(k, "parent", <<lower(person2), lower(person1)>>)
        is_grandparent_grandchild ==
            \/ _is_fact_provable(k, "grandparent", <<lower(person1), lower(person2)>>)
            \/ _is_fact_provable(k, "grandparent", <<lower(person2), lower(person1)>>)
    IN  is_parent_child \/ is_grandparent_grandchild

_validate_multiple_children_statement(k, children_list, parent_name) ==
    \A i \in DOMAIN children_list :
        ~ \/ lower(children_list[i]) = lower(parent_name)
          \/ _would_create_circular_relationship(k, children_list[i], parent_name)

\* ------------------------------------------------------------------ handlers
\* Each handler maps the database and the raw name slots of its sentence to
\* the database it leaves and the line it prints (Raised: an exception left it).

\* _process_siblings_statement asserting sibling(person1, person2) only.
_process_siblings_statement_one_way(k, parts) ==
    IF Len(parts) = 2
    THEN LET person1 == capitalize(parts[1])
             person2 == capitalize(parts[2])
         IN  IF lower(person1) = lower(person2)
             THEN Reject(k)
             ELSE IF _would_create_invalid_sibling_relationship(k, person1, person2)
             THEN Reject(k)
             ELSE Finish(assertz(Begin(k),
                      "sibling", <<lower(person1), lower(person2)>>))
    ELSE [kb |-> k, out |-> InvalidStatement]

_process_siblings_statement(k, parts) ==
    IF Len(parts) = 2
    THEN LET person1 == capitalize(parts[1])
             person2 == capitalize(parts[2])
         IN  IF lower(person1) = lower(person2)
             THEN Reject(k)
             ELSE IF _would_create_invalid_sibling_relationship(k, person1, person2)
             THEN Reject(k)
             ELSE Finish(assertz(assertz(Begin(k),
                      "sibling", <<lower(person1), lower(person2)>>),
                      "sibling", <<lower(person2), lower(person1)>>))
    ELSE [kb |-> k, out |-> InvalidStatement]

_process_parents_statement(k, parts) ==
    IF Len(parts) = 3
    THEN LET parent1 == capitalize(parts[1])
             parent2 == capitalize(parts[2])
             child == capitalize(parts[3])
         IN  IF \/ lower(child) = lower(parent1)
                \/ lower(child) = lower(parent2)
                \/ _would_create_circular_relationship(k, child, parent1)
                \/ _would_create_circular_relationship(k, child, parent2)
             THEN Reject(k)
             ELSE Finish(assertz(assertz(Begin(k),
                      "parent", <<lower(parent1), lower(child)>>),
                      "parent", <<lower(parent2), lower(child)>>))
    ELSE [kb |-> k, out |-> InvalidStatement]

\* for child in children: assertz(parent(parent, child)), from the i-th child on.
RECURSIVE AssertChildren(_, _, _, _)
AssertChildren(r, children, parent, i) ==
    IF i > Len(children) THEN r
    ELSE AssertChildren(assertz(r, "parent", <<lower(parent), lower(children[i])>>),
                        children, parent, i + 1)

_process_multiple_children_statement(k, parts) ==
    IF Len(parts) >= 2
    THEN LET children == [i \in 1..(Len(parts) - 1) |-> capitalize(parts[i])]
             parent == capitalize(parts[Len(parts)])
         IN  IF ~_validate_multiple_children_statement(k, children, parent)
             THEN Reject(k)
             ELSE Finish(AssertChildren(Begin(k), children, parent, 1))
    ELSE [kb |-> k, out |-> InvalidStatement]

_process_father_statement(k, names) ==
    LET father == _extract_names_from_statement(names)[1]
        child == _extract_names_from_statement(names)[2]
    IN  IF \/ lower(father) = lower(child)
           \/ _has_gender_conflict(k, father, "male")
           \/ _would_create_circular_relationship(k, child, father)
        THEN Reject(k)
        ELSE Finish(assertz(assertz(Begin(k), "male", <<lower(father)>>),
                 "parent", <<lower(father), lower(child)>>))

_process_mother_statement(k, names) ==
    LET mother == _extract_names_from_statement(names)[1]
        child == _extract_names_from_statement(names)[2]
    IN  IF \/ lower(mother) = lower(child)
           \/ _has_gender_conflict(k, mother, "female")
           \/ _would_create_circular_relationship(k, child, mother)
        THEN Reject(k)
        ELSE Finish(assertz(assertz(Begin(k), "female", <<lower(mother)>>),
                 "parent", <<lower(mother), lower(child)>>))

_process_brother_statement(k, names) ==
    LET brother == _extract_names_from_statement(names)[1]
        sibling == _extract_names_from_statement(names)[2]
    IN  IF \/ lower(brother) = lower(sibling)
           \/ _has_gender_conflict(k, brother, "male")
           \/ _would_create_invalid_sibling_relationship(k, brother, sibling)
        THEN Reject(k)
        ELSE Finish(assertz(assertz(assertz(Begin(k), "male", <<lower(brother)>>),
                 "sibling", <<lower(brother), lower(sibling)>>),
                 "sibling", <<lower(sibling), lower(brother)>>))

_process_sister_statement(k, names) ==
    LET sister == _extract_names_from_statement(names)[1]
        sibling == _extract_names_from_statement(names)[2]
    IN  IF \/ lower(sister) = lower(sibling)
           \/ _has_gender_conflict(k, sister, "female")
           \/ _would_create_invalid_sibling_relationship(k, sister, sibling)
        THEN Reject(k)
        ELSE Finish(assertz(assertz(assertz(Begin(k), "female", <<lower(sister)>>),
                 "sibling", <<lower(sister), lower(sibling)>>),
                 "sibling", <<lower(sibling), lower(sister)>>))

_process_grandmother_statement(k, names) ==
    LET grandmother == _extract_names_from_statement(names)[1]
        grandchild == _extract_names_from_statement(names)[2]
    IN  IF \/ lower(grandmother) = lower(grandchild)
           \/ _has_gender_conflict(k, grandmother, "female")
           \/ _would_create_circular_relationship(k, grandchild, grandmother)
        THEN Reject(k)
        ELSE Finish(assertz(assertz(Begin(k), "female", <<lower(grandmother)>>),
                 "grandparent", <<lower(grandmother), lower(grandchild)>>))

\* _process_grandfather_statement without the comparison of the two names.
_process_grandfather_statement_no_self_check(k, names) ==
    LET grandfather == _extract_names_from_statement(names)[1]
        grandchild == _extract_names_from_statement(names)[2]
    IN  IF \/ _has_gender_conflict(k, grandfather, "male")
           \/ _would_create_circular_relationship(k, grandchild, grandfather)
        THEN Reject(k)
        ELSE Finish(assertz(assertz(Begin(k), "male", <<lower(grandfather)>>),
                 "grandparent", <<lower(grandfather), lower(grandchild)>>))

_process_grandfather_statement(k, names) ==
    LET grandfather == _extract_names_from_statement(names)[1]
        grandchild == _extract_names_from_statement(names)[2]
    IN  IF \/ lower(grandfather) = lower(grandchild)
           \/ _has_gender_conflict(k, grandfather, "male")
           \/ _would_create_circular_relationship(k, grandchild, grandfather)
        THEN Reject(k)
        ELSE Finish(assertz(assertz(Begin(k), "male", <<lower(grandfather)>>),
                 "grandparent", <<lower(grandfather), lower(grandchild)>>))

_process_child_statement(k, names) ==
    LET child == _extract_names_from_statement(names)[1]
        parent == _extract_names_from_statement(names)[2]
    IN  IF \/ lower(child) = lower(parent)
           \/ _would_create_invalid_parent_child_relationship(k, child, parent)
        THEN Reject(k)
        ELSE Finish(assertz(Begin(k),
                 "parent", <<lower(parent), lower(child)>>))

\* _process_daughter_statement asserting parent(daughter, parent), the
\* arguments exchanged.
_process_daughter_statement_exchanged(k, names) ==
    LET daughter == _extract_names_from_statement(names)[1]
        parent == _extract_names_from_statement(names)[2]
    IN  IF \/ lower(daughter) = lower(parent)
           \/ _has_gender_conflict(k, daughter, "female")
           \/ _would_create_invalid_parent_child_relationship(k, daughter, parent)
        THEN Reject(k)
        ELSE Finish(assertz(assertz(Begin(k), "female", <<lower(daughter)>>),
                 "parent", <<lower(daughter), lower(parent)>>))

_process_daughter_statement(k, names) ==
    LET daughter == _extract_names_from_statement(names)[1]
        parent == _extract_names_from_statement(names)[2]
    IN  IF \/ lower(daughter) = lower(parent)
           \/ _has_gender_conflict(k, daughter, "female")
           \/ _would_create_invalid_parent_child_relationship(k, daughter, parent)
        THEN Reject(k)
        ELSE Finish(assertz(assertz(Begin(k), "female", <<lower(daughter)>>),
                 "parent", <<lower(parent), lower(daughter)>>))

_process_son_statement(k, names) ==
    LET son == _extract_names_from_statement(names)[1]
        parent == _extract_names_from_statement(names)[2]
    IN  IF \/ lower(son) = lower(parent)
           \/ _has_gender_conflict(k, son, "male")
           \/ _would_create_invalid_parent_child_relationship(k, son, parent)
        THEN Reject(k)
        ELSE Finish(assertz(assertz(Begin(k), "male", <<lower(son)>>),
                 "parent", <<lower(parent), lower(son)>>))

_process_aunt_statement(k, names) ==
    LET aunt == _extract_names_from_statement(names)[1]
        niece_or_nephew == _extract_names_from_statement(names)[2]
    IN  IF \/ lower(aunt) = lower(niece_or_nephew)
           \/ _has_gender_conflict(k, aunt, "female")
           \/ _would_create_circular_relationship(k, niece_or_nephew, aunt)
        THEN Reject(k)
        ELSE Finish(assertz(assertz(Begin(k), "female", <<lower(aunt)>>),
                 "pibling", <<lower(aunt), lower(niece_or_nephew)>>))

_process_uncle_statement(k, names) ==
    LET uncle == _extract_names_from_statement(names)[1]
        niece_or_nephew == _extract_names_from_statement(names)[2]
    IN  IF \/ lower(uncle) = lower(niece_or_nephew)
           \/ _has_gender_conflict(k, uncle, "male")
           \/ _would_create_circular_relationship(k, niece_or_nephew, uncle)
        THEN Reject(k)
        ELSE Finish(assertz(assertz(Begin(k), "male", <<lower(uncle)>>),
                 "pibling", <<lower(uncle), lower(niece_or_nephew)>>))

\* ------------------------------------------------------------------ questions
\* A question handler maps the database and the raw name slots of its sentence
\* to the line it prints, or to Raised when a call it makes raises; it calls
\* query and never assertz.

\* The values of X in the solutions of query("pred(X, person)").
Solutions(k, pred, person) == {x \in People : Solve(k, pred, <<x, person>>)}

\* The order of list.sort() on the capitalized names.
Rank(name) ==
    CASE name = "Ann" -> 1
      [] name = "Bob" -> 2
      [] name = "Cy" -> 3
      [] name = "Di" -> 4

\* list(set(...)) followed by sort(): each name once, in ascending order.
RECURSIVE sorted(_)
sorted(S) ==
    IF S = {} THEN <<>>
    ELSE LET least == CHOOSE x \in S : \A y \in S : Rank(x) <= Rank(y)
         IN  <<least>> \o sorted(S \ {least})

\* ', '.join(names) on a list that is not empty.
RECURSIVE join(_)
join(names) ==
    IF Len(names) = 1 THEN names[1] ELSE names[1] \o ", " \o join(Tail(names))

\* print(f"The {role} of {person.capitalize()} are: {', '.join(found)}.")
ListLine(role, person, results) ==
    "The " \o role \o " of " \o capitalize(person) \o " are: "
        \o join(sorted({capitalize(x) : x \in results})) \o "."

\* print(f"I don't know the {role} of {person.capitalize()}.")
UnknownLine(role, person) ==
    "I don't know the " \o role \o " of " \o capitalize(person) \o "."

\* _process_siblings_question answering "Yes!" also for two children of one
\* parent.
_process_siblings_question_shared_parent(k, parts) ==
    IF Len(parts) = 2
    THEN LET person1 == capitalize(parts[1])
             person2 == capitalize(parts[2])
         IN  IF \/ _is_fact_provable(k, "sibling", <<lower(person1), lower(person2)>>)
                \/ \E p \in People :
                       /\ _is_fact_provable(k, "parent", <<p, lower(person1)>>)
                       /\ _is_fact_provable(k, "parent", <<p, lower(person2)>>)
             THEN Yes ELSE No
    ELSE InvalidQuestion

_process_siblings_question(k, parts) ==
    IF Len(parts) = 2
    THEN LET person1 == capitalize(parts[1])
             person2 == capitalize(parts[2])
         IN  IF _is_fact_provable(k, "sibling", <<lower(person1), lower(person2)>>)
             THEN Yes ELSE No
    ELSE InvalidQuestion

\* _process_sister_question asking sibling instead of sister: the gender of
\* the first person is not looked at.
_process_sister_question_any_gender(k, names) ==
    LET person1 == _extract_names_from_statement(names)[1]
        person2 == _extract_names_from_statement(names)[2]
    IN  IF _is_fact_provable(k, "sibling", <<lower(person1), lower(person2)>>)
        THEN Yes ELSE No

_process_sister_question(k, names) ==
    LET person1 == _extract_names_from_statement(names)[1]
        person2 == _extract_names_from_statement(names)[2]
    IN  IF _is_fact_provable(k, "sister", <<lower(person1), lower(person2)>>)
        THEN Yes ELSE No

_process_brother_question(k, names) ==
    LET person1 == _extract_names_from_statement(names)[1]
        person2 == _extract_names_from_statement(names)[2]
    IN  IF _is_fact_provable(k, "brother", <<lower(person1), lower(person2)>>)
        THEN Yes ELSE No

_process_mother_question(k, names) ==
    LET parent == _extract_names_from_statement(names)[1]
        child == _extract_names_from_statement(names)[2]
    IN  IF _is_fact_provable(k, "mother", <<lower(parent), lower(child)>>)
        THEN Yes ELSE No

\* _process_father_question asking father(child, parent), the arguments
\* exchanged.
_process_father_question_exchanged(k, names) ==
    LET parent == _extract_names_from_statement(names)[1]
        child == _extract_names_from_statement(names)[2]
    IN  IF _is_fact_provable(k, "father", <<lower(child), lower(parent)>>)
        THEN Yes ELSE No

_process_father_question(k, names) ==
    LET parent == _extract_names_from_statement(names)[1]
        child == _extract_names_from_statement(names)[2]
    IN  IF _is_fact_provable(k, "father", <<lower(parent), lower(child)>>)
        THEN Yes ELSE No

_process_parents_question(k, parts) ==
    IF Len(parts) = 3
    THEN LET parent1 == lower(parts[1])
             parent2 == lower(parts[2])
             child == lower(parts[3])
             result1 == _is_fact_provable(k, "parent", <<parent1, child>>)
             result2 == _is_fact_provable(k, "parent", <<parent2, child>>)
         IN  IF result1 /\ result2 THEN Yes ELSE No
    ELSE InvalidQuestion

_process_grandmother_question(k, names) ==
    LET grandparent_name == _extract_names_from_statement(names)[1]
        grandchild == _extract_names_from_statement(names)[2]
    IN  IF _is_fact_provable(k, "grandmother",
               <<lower(grandparent_name), lower(grandchild)>>)
        THEN Yes ELSE No

_process_grandfather_question(k, names) ==
    LET grandparent_name == _extract_names_from_statement(names)[1]
        grandchild == _extract_names_from_statement(names)[2]
    IN  IF _is_fact_provable(k, "grandfather",
               <<lower(grandparent_name), lower(grandchild)>>)
        THEN Yes ELSE No

_process_daughter_question(k, names) ==
    LET child == _extract_names_from_statement(names)[1]
        parent == _extract_names_from_statement(names)[2]
    IN  IF _is_fact_provable(k, "daughter", <<lower(child), lower(parent)>>)
        THEN Yes ELSE No

_process_son_question(k, names) ==
    LET child == _extract_names_from_statement(names)[1]
        parent == _extract_names_from_statement(names)[2]
    IN  IF _is_fact_provable(k, "son", <<lower(child), lower(parent)>>)
        THEN Yes ELSE No

_process_child_question(k, names) ==
    LET child == _extract_names_from_statement(names)[1]
        parent == _extract_names_from_statement(names)[2]
    IN  IF _is_fact_provable(k, "parent", <<lower(parent), lower(child)>>)
        THEN Yes ELSE No

\* _process_multiple_children_question with any() in place of all().
_process_multiple_children_question_any(k, parts) ==
    IF Len(parts) >= 2
    THEN LET children == [i \in 1..(Len(parts) - 1) |-> lower(parts[i])]
             parent == lower(parts[Len(parts)])
             all_children ==
                 \E i \in DOMAIN children :
                     _is_fact_provable(k, "parent", <<parent, children[i]>>)
         IN  IF all_children THEN Yes ELSE No
    ELSE InvalidQuestion

_process_multiple_children_question(k, parts) ==
    IF Len(parts) >= 2
    THEN LET children == [i \in 1..(Len(parts) - 1) |-> lower(parts[i])]
             parent == lower(parts[Len(parts)])
             all_children ==
                 \A i \in DOMAIN children :
                     _is_fact_provable(k, "parent", <<parent, children[i]>>)
         IN  IF all_children THEN Yes ELSE No
    ELSE InvalidQuestion

_process_aunt_question(k, names) ==
    LET aunt == _extract_names_from_statement(names)[1]
        niece_or_nephew == _extract_names_from_statement(names)[2]
    IN  IF _is_fact_provable(k, "aunt", <<lower(aunt), lower(niece_or_nephew)>>)
        THEN Yes ELSE No

_process_uncle_question(k, names) ==
    LET uncle == _extract_names_from_statement(names)[1]
        niece_or_nephew == _extract_names_from_statement(names)[2]
    IN  IF _is_fact_provable(k, "uncle", <<lower(uncle), lower(niece_or_nephew)>>)
        THEN Yes ELSE No

_process_relatives_question(k, parts) ==
    IF Len(parts) = 2
    THEN LET person1 == lower(parts[1])
             person2 == lower(parts[2])
         IN  IF _are_persons_related(k, person1, person2) THEN Yes ELSE No
    ELSE InvalidQuestion

_process_who_siblings_question(k, names) ==
    LET person == lower(names[1])
    IN  IF ~IsTerm(person) THEN Raised
        ELSE LET results == Solutions(k, "sibling", person)
             IN  IF results # {} THEN ListLine("siblings", person, results)
                 ELSE UnknownLine("siblings", person)

_process_who_sisters_question(k, names) ==
    LET person == lower(names[1])
    IN  IF ~IsTerm(person) THEN Raised
        ELSE LET results == Solutions(k, "sister", person)
             IN  IF results # {} THEN ListLine("sisters", person, results)
                 ELSE UnknownLine("sisters", person)

_process_who_brothers_question(k, names) ==
    LET person == lower(names[1])
    IN  IF ~IsTerm(person) THEN Raised
        ELSE LET results == Solutions(k, "brother", person)
             IN  IF results # {} THEN ListLine("brothers", person, results)
                 ELSE UnknownLine("brothers", person)

\* results[0] is the solution the engine finds first, first: it depends on the
\* order of the clauses, which the bags do not keep.
_process_who_mother_question(k, names, first) ==
    LET child == lower(names[1])
    IN  IF ~IsTerm(child) THEN Raised
        ELSE LET results == Solutions(k, "mother", child)
             IN  IF results # {}
                 THEN "The mother of " \o capitalize(child) \o " is "
                          \o capitalize(first) \o "."
                 ELSE "I don't know who the mother of " \o capitalize(child) \o " is."

_process_who_father_question(k, names, first) ==
    LET child == lower(names[1])
    IN  IF ~IsTerm(child) THEN Raised
        ELSE LET results == Solutions(k, "father", child)
             IN  IF results # {}
                 THEN "The father of " \o capitalize(child) \o " is "
                          \o capitalize(first) \o "."
                 ELSE "I don't know who the father of " \o capitalize(child) \o " is."

_process_who_parents_question(k, names) ==
    LET child == lower(names[1])
    IN  IF ~IsTerm(child) THEN Raised
        ELSE LET results == Solutions(k, "parent", child)
             IN  IF results # {} THEN ListLine("parents", child, results)
                 ELSE UnknownLine("parents", child)

_process_who_daughters_question(k, names) ==
    LET parent == lower(names[1])
    IN  IF ~IsTerm(parent) THEN Raised
        ELSE LET results == Solutions(k, "daughter", parent)
             IN  IF results # {} THEN ListLine("daughters", parent, results)
                 ELSE UnknownLine("daughters", parent)

_process_who_sons_question(k, names) ==
    LET parent == lower(names[1])
    IN  IF ~IsTerm(parent) THEN Raised
        ELSE LET results == Solutions(k, "son", parent)
             IN  IF results # {} THEN ListLine("sons", parent, results)
                 ELSE UnknownLine("sons", parent)

\* query("parent(parent, X)"): the variable is the second argument.
_process_who_children_question(k, names) ==
    LET parent == lower(names[1])
    IN  IF ~IsTerm(parent) THEN Raised
        ELSE LET results == {x \in People : Solve(k, "parent", <<parent, x>>)}
             IN  IF results # {} THEN ListLine("children", parent, results)
                 ELSE UnknownLine("children", parent)

\* ------------------------------------------------------------------ dispatch

\* The handler process_statement selects for a sentence of kind s.kind.
Handle(k, s) ==
    CASE s.kind = "siblings" -> _process_siblings_statement(k, s.names)
      [] s.kind = "parents" -> _process_parents_statement(k, s.names)
      [] s.kind = "children" -> _process_multiple_children_statement(k, s.names)
      [] s.kind = "father" -> _process_father_statement(k, s.names)
      [] s.kind = "mother" -> _process_mother_statement(k, s.names)
      [] s.kind = "brother" -> _process_brother_statement(k, s.names)
      [] s.kind = "sister" -> _process_sister_statement(k, s.names)
      [] s.kind = "grandmother" -> _process_grandmother_statement(k, s.names)
      [] s.kind = "grandfather" -> _process_grandfather_statement(k, s.names)
      [] s.kind = "child" -> _process_child_statement(k, s.names)
      [] s.kind = "daughter" -> _process_daughter_statement(k, s.names)
      [] s.kind = "son" -> _process_son_statement(k, s.names)
      [] s.kind = "aunt" -> _process_aunt_statement(k, s.names)
      [] s.kind = "uncle" -> _process_uncle_statement(k, s.names)
      [] OTHER -> [kb |-> k, out |-> InvalidStatement]

\* except Exception: print("That's impossible!")
ExceptImpossible(r) ==
    [kb |-> r.kb, out |-> IF r.out = Raised THEN Impossible ELSE r.out]

\* try: <handler> except Exception: print("That's impossible!")
process_statement(k, s) == ExceptImpossible(Handle(k, s))

\* The handler process_question selects for a question of kind q.kind; a
\* line that fits no question pattern gets the invalid-question line.
Ask(k, q, first) ==
    CASE q.kind = "siblings?" -> _process_siblings_question(k, q.names)
      [] q.kind = "sister?" -> _process_sister_question(k, q.names)
      [] q.kind = "brother?" -> _process_brother_question(k, q.names)
      [] q.kind = "mother?" -> _process_mother_question(k, q.names)
      [] q.kind = "father?" -> _process_father_question(k, q.names)
      [] q.kind = "parents?" -> _process_parents_question(k, q.names)
      [] q.kind = "grandmother?" -> _process_grandmother_question(k, q.names)
      [] q.kind = "grandfather?" -> _process_grandfather_question(k, q.names)
      [] q.kind = "daughter?" -> _process_daughter_question(k, q.names)
      [] q.kind = "son?" -> _process_son_question(k, q.names)
      [] q.kind = "child?" -> _process_child_question(k, q.names)
      [] q.kind = "children?" -> _process_multiple_children_question(k, q.names)
      [] q.kind = "aunt?" -> _process_aunt_question(k, q.names)
      [] q.kind = "uncle?" -> _process_uncle_question(k, q.names)
      [] q.kind = "relatives?" -> _process_relatives_question(k, q.names)
      [] q.kind = "who siblings?" -> _process_who_siblings_question(k, q.names)
      [] q.kind = "who sisters?" -> _process_who_sisters_question(k, q.names)
      [] q.kind = "who brothers?" -> _process_who_brothers_question(k, q.names)
      [] q.kind = "who mother?" -> _process_who_mother_question(k, q.names, first)
      [] q.kind = "who father?" -> _process_who_father_question(k, q.names, first)
      [] q.kind = "who parents?" -> _process_who_parents_question(k, q.names)
      [] q.kind = "who daughters?" -> _process_who_daughters_question(k, q.names)
      [] q.kind = "who sons?" -> _process_who_sons_question(k, q.names)
      [] q.kind = "who children?" -> _process_who_children_question(k, q.names)
      [] OTHER -> InvalidQuestion

\* except Exception: print("Invalid question. Please follow ...")
ExceptInvalid(line) == IF line = Raised THEN InvalidQuestion ELSE line

\* process_question returning the outcome of the handler as it is, without
\* the except clause.
process_question_no_except(k, q, first) == Ask(k, q, first)

\* try: <handler> except Exception: print("Invalid question. ...")
process_question(k, q, first) == ExceptInvalid(Ask(k, q, first))

\* The solutions the engine can return first to a "Who is the mother/father
\* of X?" question; "nobody" where results[0] is not read.
FirstSolutions(k, q) ==
    LET pred == CASE q.kind = "who mother?" -> "mother"
                  [] q.kind = "who father?" -> "father"
                  [] OTHER -> "none"
        results == IF pred = "none" \/ ~IsTerm(lower(q.names[1])) THEN {}
                   ELSE Solutions(k, pred, lower(q.names[1]))
    IN  IF results = {} THEN {"nobody"} ELSE results

\* ------------------------------------------------------------------ the loop

\* The kinds of line that are a question sentence.
QuestionKinds ==
    {"siblings?", "sister?", "brother?", "mother?", "father?", "parents?",
     "grandmother?", "grandfather?", "daughter?", "son?", "child?", "children?",
     "aunt?", "uncle?", "relatives?", "who siblings?", "who sisters?",
     "who brothers?", "who mother?", "who father?", "who parents?",
     "who daughters?", "who sons?", "who children?"}

\* Lines that end the session, and lines of free text that do not.
QuitLines == {"quit", " EXIT "}

OtherLines == {"quit.", "why?"}

Init ==
    /\ kb = EmptyKb
    /\ pc = "prompt"
    /\ stmt = NoStmt
    /\ out = NoOutput

\* input() returned a line: the loop is at its prompt, and the session is
\* within the bound on the size of the database.
AtPrompt ==
    /\ pc = "prompt"
    /\ Clauses(kb) < MaxClauses

\* process_statement(user_input).
ReadStatement(s) ==
    /\ \E r \in {process_statement(kb, s)} :
           /\ kb' = r.kb
           /\ out' = r.out
    /\ stmt' = s
    /\ pc' = "answered"

\* process_question(user_input).
ReadQuestion(q) ==
    /\ \E first \in FirstSolutions(kb, q) : out' = process_question(kb, q, first)
    /\ stmt' = q
    /\ pc' = "answered"
    /\ UNCHANGED kb

\* print("Byebye:<") and break.
Farewell(line) ==
    /\ pc' = "done"
    /\ stmt' = line
    /\ out' = "Byebye:<"
    /\ UNCHANGED kb

\* The comparison with "quit" and "exit" on the line as typed, without
\* strip() and lower().
IsSentinel_as_typed(line) ==
    line.kind = "text" /\ line.names[1] \in {"quit", "exit"}

\* user_input.lower() in ["quit", "exit"], on the stripped line.  A line that
\* fits a sentence template is never one of the two words.
IsSentinel(line) ==
    line.kind = "text" /\ lower(strip(line.names[1])) \in {"quit", "exit"}

\* "?" in user_input: the line is a question, or one of its name slots ends
\* in a question mark.
HasQuestionMark(line) ==
    \/ line.kind \in QuestionKinds
    \/ \E i \in DOMAIN line.names : line.names[i] \in MarkedNames \cup {"why?"}

\* The loop body sending every line that is not a sentinel to
\* process_statement.
ReadLine_statements_only(line) ==
    IF IsSentinel(line) THEN Farewell(line) ELSE ReadStatement(line)

\* One pass of the loop body on the line input() returned.
ReadLine(line) ==
    IF IsSentinel(line) THEN Farewell(line)
    ELSE IF HasQuestionMark(line) THEN ReadQuestion(line)
    ELSE ReadStatement(line)

SiblingsStatement ==
    /\ AtPrompt
    /\ \E a \in RawNames, b \in RawNames :
           ReadLine([kind |-> "siblings", names |-> <<a, b>>])

ParentsStatement ==
    /\ AtPrompt
    /\ \E a \in RawNames, b \in RawNames, c \in RawNames :
           ReadLine([kind |-> "parents", names |-> <<a, b, c>>])

ChildrenStatement ==
    /\ AtPrompt
    /\ \E n \in 1..MaxChildren : \E cs \in [1..n -> ChildNames] : \E p \in RawNames :
           ReadLine([kind |-> "children", names |-> Append(cs, p)])

FatherStatement ==
    /\ AtPrompt
    /\ \E a \in RawNames, b \in RawNames :
           ReadLine([kind |-> "father", names |-> <<a, b>>])

MotherStatement ==
    /\ AtPrompt
    /\ \E a \in RawNames, b \in RawNames :
           ReadLine([kind |-> "mother", names |-> <<a, b>>])

BrotherStatement ==
    /\ AtPrompt
    /\ \E a \in RawNames, b \in RawNames :
           ReadLine([kind |-> "brother", names |-> <<a, b>>])

SisterStatement ==
    /\ AtPrompt
    /\ \E a \in RawNames, b \in RawNames :
           ReadLine([kind |-> "sister", names |-> <<a, b>>])

GrandmotherStatement ==
    /\ AtPrompt
    /\ \E a \in RawNames, b \in RawNames :
           ReadLine([kind |-> "grandmother", names |-> <<a, b>>])

GrandfatherStatement ==
    /\ AtPrompt
    /\ \E a \in RawNames, b \in RawNames :
           ReadLine([kind |-> "grandfather", names |-> <<a, b>>])

ChildStatement ==
    /\ AtPrompt
    /\ \E a \in RawNames, b \in RawNames :
           ReadLine([kind |-> "child", names |-> <<a, b>>])

DaughterStatement ==
    /\ AtPrompt
    /\ \E a \in RawNames, b \in RawNames :
           ReadLine([kind |-> "daughter", names |-> <<a, b>>])

SonStatement ==
    /\ AtPrompt
    /\ \E a \in RawNames, b \in RawNames :
           ReadLine([kind |-> "son", names |-> <<a, b>>])

AuntStatement ==
    /\ AtPrompt
    /\ \E a \in RawNames, b \in RawNames :
           ReadLine([kind |-> "aunt", names |-> <<a, b>>])

UncleStatement ==
    /\ AtPrompt
    /\ \E a \in RawNames, b \in RawNames :
           ReadLine([kind |-> "uncle", names |-> <<a, b>>])

\* The names the further questions, and the sentences with a wrong number of
\* names, are drawn from.
AskedNames == {"Ann", "Bob", "Mary Ann"}

SiblingsQuestion ==
    /\ AtPrompt
    /\ \E a \in RawNames, b \in RawNames :
           ReadLine([kind |-> "siblings?", names |-> <<a, b>>])

ChildQuestion ==
    /\ AtPrompt
    /\ \E a \in RawNames, b \in RawNames :
           ReadLine([kind |-> "child?", names |-> <<a, b>>])

SisterQuestion ==
    /\ AtPrompt
    /\ \E a \in AskedNames, b \in AskedNames :
           ReadLine([kind |-> "sister?", names |-> <<a, b>>])

BrotherQuestion ==
    /\ AtPrompt
    /\ \E a \in AskedNames, b \in AskedNames :
           ReadLine([kind |-> "brother?", names |-> <<a, b>>])

MotherQuestion ==
    /\ AtPrompt
    /\ \E a \in AskedNames, b \in AskedNames :
           ReadLine([kind |-> "mother?", names |-> <<a, b>>])

FatherQuestion ==
    /\ AtPrompt
    /\ \E a \in AskedNames, b \in AskedNames :
           ReadLine([kind |-> "father?", names |-> <<a, b>>])

GrandmotherQuestion ==
    /\ AtPrompt
    /\ \E a \in AskedNames, b \in AskedNames :
           ReadLine([kind |-> "grandmother?", names |-> <<a, b>>])

GrandfatherQuestion ==
    /\ AtPrompt
    /\ \E a \in AskedNames, b \in AskedNames :
           ReadLine([kind |-> "grandfather?", names |-> <<a, b>>])

DaughterQuestion ==
    /\ AtPrompt
    /\ \E a \in AskedNames, b \in AskedNames :
           ReadLine([kind |-> "daughter?", names |-> <<a, b>>])

SonQuestion ==
    /\ AtPrompt
    /\ \E a \in AskedNames, b \in AskedNames :
           ReadLine([kind |-> "son?", names |-> <<a, b>>])

AuntQuestion ==
    /\ AtPrompt
    /\ \E a \in AskedNames, b \in AskedNames :
           ReadLine([kind |-> "aunt?", names |-> <<a, b>>])

UncleQuestion ==
    /\ AtPrompt
    /\ \E a \in AskedNames, b \in AskedNames :
           ReadLine([kind |-> "uncle?", names |-> <<a, b>>])

RelativesQuestion ==
    /\ AtPrompt
    /\ \E a \in AskedNames, b \in AskedNames :
           ReadLine([kind |-> "relatives?", names |-> <<a, b>>])

ParentsQuestion ==
    /\ AtPrompt
    /\ \E a \in AskedNames, b \in AskedNames, c \in AskedNames :
           ReadLine([kind |-> "parents?", names |-> <<a, b, c>>])

ChildrenQuestion ==
    /\ AtPrompt
    /\ \E n \in 1..2 : \E cs \in [1..n -> AskedNames] : \E p \in AskedNames :
           ReadLine([kind |-> "children?", names |-> Append(cs, p)])

WhoSiblingsQuestion ==
    /\ AtPrompt
    /\ \E a \in AskedNames :
           ReadLine([kind |-> "who siblings?", names |-> <<a>>])

WhoSistersQuestion ==
    /\ AtPrompt
    /\ \E a \in AskedNames :
           ReadLine([kind |-> "who sisters?", names |-> <<a>>])

WhoBrothersQuestion ==
    /\ AtPrompt
    /\ \E a \in AskedNames :
           ReadLine([kind |-> "who brothers?", names |-> <<a>>])

WhoMotherQuestion ==
    /\ AtPrompt
    /\ \E a \in AskedNames :
           ReadLine([kind |-> "who mother?", names |-> <<a>>])

WhoFatherQuestion ==
    /\ AtPrompt
    /\ \E a \in AskedNames :
           ReadLine([kind |-> "who father?", names |-> <<a>>])

WhoParentsQuestion ==
    /\ AtPrompt
    /\ \E a \in AskedNames :
           ReadLine([kind |-> "who parents?", names |-> <<a>>])

WhoDaughtersQuestion ==
    /\ AtPrompt
    /\ \E a \in AskedNames :
           ReadLine([kind |-> "who daughters?", names |-> <<a>>])

WhoSonsQuestion ==
    /\ AtPrompt
    /\ \E a \in AskedNames :
           ReadLine([kind |-> "who sons?", names |-> <<a>>])

WhoChildrenQuestion ==
    /\ AtPrompt
    /\ \E a \in AskedNames :
           ReadLine([kind |-> "who children?", names |-> <<a>>])

\* A statement sentence whose last name slot ends in a question mark, such as
\* "Ann is the father of Bob?".
MarkedStatement ==
    /\ AtPrompt
    /\ \E kind \in {"father", "sister"}, a \in AskedNames, b \in MarkedNames :
           ReadLine([kind |-> kind, names |-> <<a, b>>])

\* "A and B and C are siblings.": three names around the words of the template.
LongSiblingsStatement ==
    /\ AtPrompt
    /\ \E a \in AskedNames, b \in AskedNames, c \in AskedNames :
           ReadLine([kind |-> "siblings", names |-> <<a, b, c>>])

\* "A and B and C are the parents of D.": four names around the words of the
\* template.
LongParentsStatement ==
    /\ AtPrompt
    /\ \E a \in AskedNames, b \in AskedNames, c \in AskedNames, d \in AskedNames :
           ReadLine([kind |-> "parents", names |-> <<a, b, c, d>>])

\* Back to input() at the top of the while loop.
Continue ==
    /\ pc = "answered"
    /\ pc' = "prompt"
    /\ stmt' = NoStmt
    /\ out' = NoOutput
    /\ UNCHANGED kb

\* "quit" or "exit" in any case and with blanks around it: the farewell line,
\* and the loop ends.
Quit ==
    /\ pc = "prompt"
    /\ \E text \in QuitLines : ReadLine([kind |-> "text", names |-> <<text>>])

\* A line that fits no sentence template and is not a sentinel.
OtherText ==
    /\ AtPrompt
    /\ \E text \in OtherLines : ReadLine([kind |-> "text", names |-> <<text>>])

Next ==
    \/ SiblingsStatement
    \/ ParentsStatement
    \/ ChildrenStatement
    \/ FatherStatement
    \/ MotherStatement
    \/ BrotherStatement
    \/ SisterStatement
    \/ GrandmotherStatement
    \/ GrandfatherStatement
    \/ ChildStatement
    \/ DaughterStatement
    \/ SonStatement
    \/ AuntStatement
    \/ UncleStatement
    \/ SiblingsQuestion
    \/ ChildQuestion
    \/ SisterQuestion
    \/ BrotherQuestion
    \/ MotherQuestion
    \/ FatherQuestion
    \/ GrandmotherQuestion
    \/ GrandfatherQuestion
    \/ DaughterQuestion
    \/ SonQuestion
    \/ AuntQuestion
    \/ UncleQuestion
    \/ RelativesQuestion
    \/ ParentsQuestion
    \/ ChildrenQuestion
    \/ WhoSiblingsQuestion
    \/ WhoSistersQuestion
    \/ WhoBrothersQuestion
    \/ WhoMotherQuestion
    \/ WhoFatherQuestion
    \/ WhoParentsQuestion
    \/ WhoDaughtersQuestion
    \/ WhoSonsQuestion
    \/ WhoChildrenQuestion
    \/ MarkedStatement
    \/ LongSiblingsStatement
    \/ LongParentsStatement
    \/ Continue
    \/ Quit
    \/ OtherText

Spec == Init /\ [][Next]_vars

\* ------------------------------------------------------------------ long chains
\* Sessions about the four people in their plain spelling, made of the
\* statements that build parent chains, sibling pairs and grandparent facts:
\* fewer inputs per step, so that longer sessions are explored.

PlainNames == {"Ann", "Bob", "Cy", "Di"}

AtChainPrompt ==
    /\ pc = "prompt"
    /\ Clauses(kb) < MaxChainClauses

ChainChild ==
    /\ AtChainPrompt
    /\ \E a \in PlainNames, b \in PlainNames :
           ReadLine([kind |-> "child", names |-> <<a, b>>])

ChainSiblings ==
    /\ AtChainPrompt
    /\ \E a \in PlainNames, b \in PlainNames :
           ReadLine([kind |-> "siblings", names |-> <<a, b>>])

ChainBrother ==
    /\ AtChainPrompt
    /\ \E a \in PlainNames, b \in PlainNames :
           ReadLine([kind |-> "brother", names |-> <<a, b>>])

ChainSister ==
    /\ AtChainPrompt
    /\ \E a \in PlainNames, b \in PlainNames :
           ReadLine([kind |-> "sister", names |-> <<a, b>>])

ChainGrandmother ==
    /\ AtChainPrompt
    /\ \E a \in PlainNames, b \in PlainNames :
           ReadLine([kind |-> "grandmother", names |-> <<a, b>>])

ChainNext ==
    \/ ChainChild
    \/ ChainSiblings
    \/ ChainBrother
    \/ ChainSister
    \/ ChainGrandmother
    \/ Continue

ChainSpec == Init /\ [][ChainNext]_vars

\* ------------------------------------------------------------------ learn, then ask
\* Sessions about the four people in their plain spelling, made of the
\* statements that record parents, children, siblings and genders, and of the
\* questions about them.  A statement is read while the knowledge base holds
\* fewer than MaxAskClauses clauses, a yes/no question while it holds no more
\* than that, and a "Who ..." question at any prompt.

\* The names the lists of children are drawn from in these sessions.
ListNames == {"Ann", "Bob", "Cy"}

AtAskPrompt ==
    /\ pc = "prompt"
    /\ Clauses(kb) < MaxAskClauses

AtAskQuestion ==
    /\ pc = "prompt"
    /\ Clauses(kb) <= MaxAskClauses

AskFatherStatement ==
    /\ AtAskPrompt
    /\ \E a \in PlainNames, b \in PlainNames :
           ReadLine([kind |-> "father", names |-> <<a, b>>])

AskMotherStatement ==
    /\ AtAskPrompt
    /\ \E a \in PlainNames, b \in PlainNames :
           ReadLine([kind |-> "mother", names |-> <<a, b>>])

AskSonStatement ==
    /\ AtAskPrompt
    /\ \E a \in PlainNames, b \in PlainNames :
           ReadLine([kind |-> "son", names |-> <<a, b>>])

AskDaughterStatement ==
    /\ AtAskPrompt
    /\ \E a \in PlainNames, b \in PlainNames :
           ReadLine([kind |-> "daughter", names |-> <<a, b>>])

AskBrotherStatement ==
    /\ AtAskPrompt
    /\ \E a \in PlainNames, b \in PlainNames :
           ReadLine([kind |-> "brother", names |-> <<a, b>>])

AskSisterStatement ==
    /\ AtAskPrompt
    /\ \E a \in PlainNames, b \in PlainNames :
           ReadLine([kind |-> "sister", names |-> <<a, b>>])

AskSiblingsStatement ==
    /\ AtAskPrompt
    /\ \E a \in PlainNames, b \in PlainNames :
           ReadLine([kind |-> "siblings", names |-> <<a, b>>])

AskChildrenStatement ==
    /\ AtAskPrompt
    /\ \E n \in 1..MaxChildren : \E cs \in [1..n -> ListNames] : \E p \in PlainNames :
           ReadLine([kind |-> "children", names |-> Append(cs, p)])

AskFatherQuestion ==
    /\ AtAskQuestion
    /\ \E a \in PlainNames, b \in PlainNames :
           ReadLine([kind |-> "father?", names |-> <<a, b>>])

AskSonQuestion ==
    /\ AtAskQuestion
    /\ \E a \in PlainNames, b \in PlainNames :
           ReadLine([kind |-> "son?", names |-> <<a, b>>])

AskSiblingsQuestion ==
    /\ AtAskQuestion
    /\ \E a \in PlainNames, b \in PlainNames :
           ReadLine([kind |-> "siblings?", names |-> <<a, b>>])

AskBrotherQuestion ==
    /\ AtAskQuestion
    /\ \E a \in PlainNames, b \in PlainNames :
           ReadLine([kind |-> "brother?", names |-> <<a, b>>])

AskSisterQuestion ==
    /\ AtAskQuestion
    /\ \E a \in PlainNames, b \in PlainNames :
           ReadLine([kind |-> "sister?", names |-> <<a, b>>])

AskChildrenQuestion ==
    /\ AtAskQuestion
    /\ \E n \in 1..MaxChildren : \E cs \in [1..n -> ListNames] : \E p \in PlainNames :
           ReadLine([kind |-> "children?", names |-> Append(cs, p)])

AskWhoSiblingsQuestion ==
    /\ pc = "prompt"
    /\ \E a \in PlainNames :
           ReadLine([kind |-> "who siblings?", names |-> <<a>>])

AskWhoSistersQuestion ==
    /\ pc = "prompt"
    /\ \E a \in PlainNames :
           ReadLine([kind |-> "who sisters?", names |-> <<a>>])

AskWhoBrothersQuestion ==
    /\ pc = "prompt"
    /\ \E a \in PlainNames :
           ReadLine([kind |-> "who brothers?", names |-> <<a>>])

AskWhoMotherQuestion ==
    /\ pc = "prompt"
    /\ \E a \in PlainNames :
           ReadLine([kind |-> "who mother?", names |-> <<a>>])

AskWhoFatherQuestion ==
    /\ pc = "prompt"
    /\ \E a \in PlainNames :
           ReadLine([kind |-> "who father?", names |-> <<a>>])

AskWhoParentsQuestion ==
    /\ pc = "prompt"
    /\ \E a \in PlainNames :
           ReadLine([kind |-> "who parents?", names |-> <<a>>])

AskWhoDaughtersQuestion ==
    /\ pc = "prompt"
    /\ \E a \in PlainNames :
           ReadLine([kind |-> "who daughters?", names |-> <<a>>])

AskWhoSonsQuestion ==
    /\ pc = "prompt"
    /\ \E a \in PlainNames :
           ReadLine([kind |-> "who sons?", names |-> <<a>>])

AskWhoChildrenQuestion ==
    /\ pc = "prompt"
    /\ \E a \in PlainNames :
           ReadLine([kind |-> "who children?", names |-> <<a>>])

AskNext ==
    \/ AskFatherStatement
    \/ AskMotherStatement
    \/ AskSonStatement
    \/ AskDaughterStatement
    \/ AskBrotherStatement
    \/ AskSisterStatement
    \/ AskSiblingsStatement
    \/ AskChildrenStatement
    \/ AskFatherQuestion
    \/ AskSonQuestion
    \/ AskSiblingsQuestion
    \/ AskBrotherQuestion
    \/ AskSisterQuestion
    \/ AskChildrenQuestion
    \/ AskWhoSiblingsQuestion
    \/ AskWhoSistersQuestion
    \/ AskWhoBrothersQuestion
    \/ AskWhoMotherQuestion
    \/ AskWhoFatherQuestion
    \/ AskWhoParentsQuestion
    \/ AskWhoDaughtersQuestion
    \/ AskWhoSonsQuestion
    \/ AskWhoChildrenQuestion
    \/ Continue

AskSpec == Init /\ [][AskNext]_vars

\* ------------------------------------------------------------------ vocabulary of the claims

StatementKinds ==
    {"siblings", "parents", "children", "father", "mother", "brother", "sister",
     "grandmother", "grandfather", "child", "daughter", "son", "aunt", "uncle"}

MaleKinds == {"father", "son", "brother", "grandfather", "uncle"}

FemaleKinds == {"mother", "daughter", "sister", "grandmother", "aunt"}

SiblingKinds == {"siblings", "brother", "sister"}

AncestorKinds ==
    {"father", "mother", "parents", "children", "grandmother", "grandfather",
     "aunt", "uncle"}

\* The person a raw name slot resolves to.
Person(raw) == lower(capitalize(raw))

\* A step of the loop that processes a statement: stmt' is the statement,
\* kb the database before it and kb' the database after it.
StatementStep ==
    /\ pc = "prompt"
    /\ pc' = "answered"
    /\ stmt'.kind \in StatementKinds
    /\ ~HasQuestionMark(stmt')

\* A step of the loop that processes a line with a question mark in it.
QuestionStep ==
    /\ pc = "prompt"
    /\ pc' = "answered"
    /\ HasQuestionMark(stmt')

\* The loop has just answered a question of the given kind.
AnsweredQuestion(kind) == pc = "answered" /\ stmt.kind = kind

\* The lines a statement is answered with.
StatementLines == {Learned, Impossible, InvalidStatement}

\* The loop has just answered a statement.
Answered == pc = "answered" /\ stmt.kind \in StatementKinds /\ ~HasQuestionMark(stmt)

Male(k, p) == Stored(k, "male", <<p>>)

Female(k, p) == Stored(k, "female", <<p>>)

Parent(k, p, c) == Stored(k, "parent", <<p, c>>)

Sibling(k, a, b) == Stored(k, "sibling", <<a, b>>)

ChildrenOf(k, S) == {c \in People : \E p \in S : Parent(k, p, c)}

RECURSIVE DescendantsFrom(_, _)
DescendantsFrom(k, S) ==
    LET more == ChildrenOf(k, S) \ S
    IN  IF more = {} THEN S ELSE DescendantsFrom(k, S \cup more)

\* a is an ancestor of d: a chain of one or more parent facts leads from a to d.
Ancestor(k, a, d) == d \in DescendantsFrom(k, ChildrenOf(k, {a}))

\* The (ancestor, descendant) pairs a statement of an ancestor-introducing
\* kind proposes, as persons.
Proposed(s) ==
    CASE s.kind = "parents" ->
            IF Len(s.names) = 3
            THEN {<<Person(s.names[1]), Person(s.names[3])>>,
                  <<Person(s.names[2]), Person(s.names[3])>>}
            ELSE {}
      [] s.kind = "children" ->
            {<<Person(s.names[Len(s.names)]), Person(s.names[i])>> :
                i \in 1..(Len(s.names) - 1)}
      [] OTHER -> {<<Person(s.names[1]), Person(s.names[2])>>}

\* Two name slots of the statement resolve to the same person.
SameSlots(s) ==
    \E i \in DOMAIN s.names, j \in DOMAIN s.names :
        i < j /\ Person(s.names[i]) = Person(s.names[j])

\* Every clause of database k is in database l, at least as many times.
Keeps(k, l) == \A p \in Preds : k[p] \sqsubseteq l[p]

\* ------------------------------------------------------------------ C1

NoDoubleGender == \A p \in People : ~(Male(kb, p) /\ Female(kb, p))

\* The subject of statement s has the gender fact opposite to the one s asserts.
OppositeRecorded(k, s) ==
    \/ s.kind \in MaleKinds /\ Female(k, Person(s.names[1]))
    \/ s.kind \in FemaleKinds /\ Male(k, Person(s.names[1]))

\* C1: in every reachable state no person has both a male and a female fact,
\* and a father, mother, son, daughter, brother, sister, grandmother,
\* grandfather, aunt or uncle statement whose subject already has the opposite
\* gender fact is answered "That's impossible!" and leaves the database, and
\* with it the person's original gender fact, as it was.
C1_GenderExclusivity ==
    /\ []NoDoubleGender
    /\ [][(StatementStep /\ OppositeRecorded(kb, stmt'))
            => (out' = Impossible /\ kb' = kb)]_vars

\* A mother-kind statement about a person recorded as male, with nothing else
\* wrong with it, has been rejected.
C1_Witness ==
    /\ Answered
    /\ stmt.kind \in FemaleKinds
    /\ Male(kb, Person(stmt.names[1]))
    /\ Person(stmt.names[2]) \in People
    /\ Person(stmt.names[1]) # Person(stmt.names[2])
    /\ ~related(kb, Person(stmt.names[1]), Person(stmt.names[2]))
    /\ out = Impossible

\* ------------------------------------------------------------------ C2

\* C2: the committed parent facts contain no directed cycle: no person is
\* their own ancestor.
C2_Acyclic == \A p \in People : ~Ancestor(kb, p, p)

\* ------------------------------------------------------------------ C3

\* C3: when a statement has just been accepted, submitting the identical
\* statement again is accepted again and leaves the database as it is, with
\* the same clauses in the same number.
C3_Idempotent ==
    (Answered /\ out = Learned)
        => /\ process_statement(kb, stmt).out = Learned
           /\ process_statement(kb, stmt).kb = kb

\* ------------------------------------------------------------------ C4

\* C4: a statement answered "That's impossible!" leaves the database
\* identical to the database before it.
C4_NoPartialCommit ==
    [][(StatementStep /\ out' = Impossible) => kb' = kb]_vars

\* ------------------------------------------------------------------ C5

C6_SelfReference ==
    [][(StatementStep /\ SameSlots(stmt'))
            => (out' = Impossible /\ kb' = kb)]_vars

\* ------------------------------------------------------------------ C7

\* The listed children of a children-of statement, and its parent, as persons.
ListedChildren(s) == {Person(s.names[i]) : i \in 1..(Len(s.names) - 1)}

ListedParent(s) == Person(s.names[Len(s.names)])

\* A listed child is the parent itself or is already related to the parent.
FailsChildCheck(k, s) ==
    \E c \in ListedChildren(s) :
        \/ c = ListedParent(s)
        \/ c \in People /\ ListedParent(s) \in People /\ related(k, ListedParent(s), c)

\* The listed children whose parent fact the step asserted.
AddedChildren(k, l, s) ==
    {c \in ListedChildren(s) :
        CopiesIn(<<ListedParent(s), c>>, l.parent)
            > CopiesIn(<<ListedParent(s), c>>, k.parent)}

\* C7: a children-of statement with a listed child that equals the parent or
\* fails the cycle check is rejected and adds no parent fact; any other
\* children-of statement leaves parent(P, child) stored for every listed
\* child; no step asserts the parent facts of only some of the listed children.
C7_MultiChildAtomic ==
    [][(StatementStep /\ stmt'.kind = "children")
            => /\ FailsChildCheck(kb, stmt') => (out' = Impossible /\ kb' = kb)
               /\ ~FailsChildCheck(kb, stmt')
                    => \A c \in ListedChildren(stmt') : Parent(kb', ListedParent(stmt'), c)
               /\ AddedChildren(kb, kb', stmt') \in {{}, ListedChildren(stmt')}]_vars

\* ------------------------------------------------------------------ C8

\* C8: in every reachable state sibling(A,B) is stored exactly when
\* sibling(B,A) is stored, and after an accepted siblings, brother or sister
\* statement about A and B both directions are stored.
C8_SiblingSymmetry ==
    /\ \A a \in People, b \in People : Sibling(kb, a, b) <=> Sibling(kb, b, a)
    /\ (Answered /\ stmt.kind \in SiblingKinds /\ out = Learned)
            => /\ Sibling(kb, Person(stmt.names[1]), Person(stmt.names[2]))
               /\ Sibling(kb, Person(stmt.names[2]), Person(stmt.names[1]))

\* A siblings, brother or sister statement has been accepted.
C8_Witness ==
    /\ Answered
    /\ stmt.kind \in SiblingKinds
    /\ out = Learned
    /\ Sibling(kb, Person(stmt.names[1]), Person(stmt.names[2]))

\* ------------------------------------------------------------------ C9

\* One of the two people is a parent or a grandparent of the other.
ParentOrGrandparent(k, a, b) ==
    /\ a \in People
    /\ b \in People
    /\ \/ Parent(k, a, b)
       \/ Parent(k, b, a)
       \/ grandparent(k, a, b)
       \/ grandparent(k, b, a)

\* C9 (as amended): a siblings, brother or sister statement about two people
\* is answered "That's impossible!", and changes nothing, whenever one of them
\* is already a parent or a grandparent of the other (a stored parent fact, a
\* stored grandparent fact or a chain of two parent facts).
C9_SiblingsVsParentOrGrandparent ==
    [][(/\ StatementStep
        /\ stmt'.kind \in SiblingKinds
        /\ ParentOrGrandparent(kb, Person(stmt'.names[1]), Person(stmt'.names[2])))
            => (out' = Impossible /\ kb' = kb)]_vars

\* C9 (as claimed): a siblings, brother or sister statement about two people
\* is answered "That's impossible!" whenever one of them is already an
\* ancestor of the other at any depth.
C9_SiblingsVsAncestry ==
    [][(/\ StatementStep
        /\ stmt'.kind \in SiblingKinds
        /\ \/ Ancestor(kb, Person(stmt'.names[1]), Person(stmt'.names[2]))
           \/ Ancestor(kb, Person(stmt'.names[2]), Person(stmt'.names[1])))
            => out' = Impossible]_vars

\* A siblings statement about a person and a grandchild of theirs, by a chain
\* of two parent facts and no direct parent fact, has been rejected.
C9_Witness ==
    /\ Answered
    /\ stmt.kind = "siblings"
    /\ out = Impossible
    /\ Person(stmt.names[1]) # Person(stmt.names[2])
    /\ ~Parent(kb, Person(stmt.names[1]), Person(stmt.names[2]))
    /\ ~Parent(kb, Person(stmt.names[2]), Person(stmt.names[1]))
    /\ \E y \in People : /\ Parent(kb, Person(stmt.names[1]), y)
                         /\ Parent(kb, y, Person(stmt.names[2]))

\* ------------------------------------------------------------------ C10

\* C10: no step removes a stored clause, and the database changes only in a
\* statement step that answers "OK! I learned something.".
C10_AppendOnly ==
    [][/\ Keeps(kb, kb')
       /\ kb' # kb => (StatementStep /\ out' = Learned)]_vars

\* ------------------------------------------------------------------ C11

\* C11: a line that contains a question mark is answered as a question,
\* never with one of the three lines that answer a statement, and leaves the
\* database as it was: a yes/no question, a "Who ..." question, a relatives
\* question, an unrecognised one, and a statement sentence with a question
\* mark in it.
C11_QuestionsArePureReads ==
    [][QuestionStep => (kb' = kb /\ out' \notin StatementLines)]_vars

\* A statement sentence with a question mark in it has been answered as an
\* invalid question, with facts already in the database.
C11_Witness ==
    /\ pc = "answered"
    /\ stmt.kind \in StatementKinds
    /\ HasQuestionMark(stmt)
    /\ out = InvalidQuestion
    /\ kb # EmptyKb

\* ------------------------------------------------------------------ C12

RECURSIVE SeqToBag(_)
\* The bag of the elements of a sequence, each as often as it occurs.
SeqToBag(seq) ==
    IF seq = <<>> THEN EmptyBag ELSE SetToBag({Head(seq)}) (+) SeqToBag(Tail(seq))

\* The gender fact a statement of kind s.kind commits, for gender g.
GenderCommit(s, g) ==
    IF (g = "male" /\ s.kind \in MaleKinds) \/ (g = "female" /\ s.kind \in FemaleKinds)
    THEN <<<<Person(s.names[1])>>>>
    ELSE <<>>

\* The facts of predicate p that an accepted statement s commits, in the
\* order of the claim's table.
Commit(s, p) ==
    LET subject == Person(s.names[1])
        object == Person(s.names[Len(s.names)])
    IN  CASE p \in {"male", "female"} -> GenderCommit(s, p)
          [] p = "parent" /\ s.kind \in {"father", "mother"} -> <<<<subject, object>>>>
          [] p = "parent" /\ s.kind \in {"son", "daughter", "child"} ->
                <<<<object, subject>>>>
          [] p = "parent" /\ s.kind = "parents" ->
                <<<<subject, object>>, <<Person(s.names[2]), object>>>>
          [] p = "parent" /\ s.kind = "children" ->
                [i \in 1..(Len(s.names) - 1) |-> <<object, Person(s.names[i])>>]
          [] p = "sibling" /\ s.kind \in SiblingKinds ->
                <<<<subject, object>>, <<object, subject>>>>
          [] p = "grandparent" /\ s.kind \in {"grandmother", "grandfather"} ->
                <<<<subject, object>>>>
          [] p = "pibling" /\ s.kind \in {"aunt", "uncle"} -> <<<<subject, object>>>>
          [] OTHER -> <<>>

Listing(S) ==
    CASE S = {"ann"} -> "Ann"
      [] S = {"bob"} -> "Bob"
      [] S = {"cy"} -> "Cy"
      [] S = {"di"} -> "Di"
      [] S = {"ann", "bob"} -> "Ann, Bob"
      [] S = {"ann", "cy"} -> "Ann, Cy"
      [] S = {"ann", "di"} -> "Ann, Di"
      [] S = {"bob", "cy"} -> "Bob, Cy"
      [] S = {"bob", "di"} -> "Bob, Di"
      [] S = {"cy", "di"} -> "Cy, Di"
      [] S = {"ann", "bob", "cy"} -> "Ann, Bob, Cy"
      [] S = {"ann", "bob", "di"} -> "Ann, Bob, Di"
      [] S = {"ann", "cy", "di"} -> "Ann, Cy, Di"
      [] S = {"bob", "cy", "di"} -> "Bob, Cy, Di"
      [] S = {"ann", "bob", "cy", "di"} -> "Ann, Bob, Cy, Di"

\* x is recorded as a father of y: a male parent.
FatherRecorded(k, x, y) == Male(k, x) /\ Parent(k, x, y)

FathersOf(k, y) == {x \in People : FatherRecorded(k, x, y)}

\* C13: an accepted "X is the father of Y." records X as a male parent of Y;
\* what is recorded stays recorded; "Is X the father of Y?" is answered
\* "Yes!" in every state where that is recorded; and "Who is the father of
\* Y?" is answered "The father of Y is X." in every state where X is the only
\* father of Y on record.
C13_LearnThenAskFather ==
    /\ [][(StatementStep /\ stmt'.kind = "father" /\ out' = Learned)
            => FatherRecorded(kb', Person(stmt'.names[1]), Person(stmt'.names[2]))]_vars
    /\ [][\A x \in People, y \in People :
            FatherRecorded(kb, x, y) => FatherRecorded(kb', x, y)]_vars
    /\ [](AnsweredQuestion("father?")
            => (FatherRecorded(kb, Person(stmt.names[1]), Person(stmt.names[2]))
                    => out = Yes))
    /\ [](AnsweredQuestion("who father?")
            => \A x \in People :
                   FathersOf(kb, Person(stmt.names[1])) = {x}
                       => out = "The father of " \o Listing({Person(stmt.names[1])})
                                    \o " is " \o Listing({x}) \o ".")

\* "Who is the father of Y?" has been answered with the one father on record,
\* in a database that holds further facts.
C13_Witness ==
    /\ AnsweredQuestion("who father?")
    /\ \E x \in People :
           /\ FathersOf(kb, Person(stmt.names[1])) = {x}
           /\ out = "The father of " \o Listing({Person(stmt.names[1])})
                        \o " is " \o Listing({x}) \o "."
           /\ Clauses(kb) > 2

\* ------------------------------------------------------------------ C14

\* The children a "... children of P" sentence lists, and its parent.
AskedChildren(q) == {Person(q.names[i]) : i \in 1..(Len(q.names) - 1)}

AskedParent(q) == Person(q.names[Len(q.names)])

\* C14: an accepted "C1, C2 and C3 are children of P." records parent(P, Ci)
\* for every listed child; what is recorded stays recorded; "Are C1, C2 and
\* C3 children of P?" is answered "Yes!" exactly when parent(P, Ci) is stored
\* for every listed Ci, and "No!" otherwise; and "Who are the children of P?"
\* lists exactly the people with a stored parent(P, .) fact.
C14_LearnThenAskChildren ==
    /\ [][(StatementStep /\ stmt'.kind = "children" /\ out' = Learned)
            => \A c \in AskedChildren(stmt') : Parent(kb', AskedParent(stmt'), c)]_vars
    /\ [][\A p \in People, c \in People : Parent(kb, p, c) => Parent(kb', p, c)]_vars
    /\ [](AnsweredQuestion("children?")
            => out = IF \A c \in AskedChildren(stmt) : Parent(kb, AskedParent(stmt), c)
                     THEN Yes ELSE No)
    /\ [](AnsweredQuestion("who children?")
            => (ChildrenOf(kb, {Person(stmt.names[1])}) # {}
                   => out = "The children of " \o Listing({Person(stmt.names[1])})
                                \o " are: "
                                \o Listing(ChildrenOf(kb, {Person(stmt.names[1])}))
                                \o "."))

\* "Are C1, C2 and C3 children of P?" about three different children has been
\* answered "Yes!".
C14_Witness ==
    /\ AnsweredQuestion("children?")
    /\ Cardinality(AskedChildren(stmt)) = 3
    /\ out = Yes

\* ------------------------------------------------------------------ C15

WhoKinds ==
    {"who siblings?", "who sisters?", "who brothers?", "who mother?", "who father?",
     "who parents?", "who daughters?", "who sons?", "who children?"}

\* The role a "Who ..." question asks for.
Role(kind) ==
    CASE kind = "who siblings?" -> "siblings"
      [] kind = "who sisters?" -> "sisters"
      [] kind = "who brothers?" -> "brothers"
      [] kind = "who mother?" -> "mother"
      [] kind = "who father?" -> "father"
      [] kind = "who parents?" -> "parents"
      [] kind = "who daughters?" -> "daughters"
      [] kind = "who sons?" -> "sons"
      [] kind = "who children?" -> "children"

\* The people who satisfy the role for person x.
Holders(k, role, x) ==
    CASE role = "siblings" -> {y \in People : Sibling(k, y, x)}
      [] role = "sisters" -> {y \in People : Sibling(k, y, x) /\ Female(k, y)}
      [] role = "brothers" -> {y \in People : Sibling(k, y, x) /\ Male(k, y)}
      [] role = "mother" -> {y \in People : Parent(k, y, x) /\ Female(k, y)}
      [] role = "father" -> {y \in People : Parent(k, y, x) /\ Male(k, y)}
      [] role = "parents" -> {y \in People : Parent(k, y, x)}
      [] role = "daughters" -> {y \in People : Parent(k, x, y) /\ Female(k, y)}
      [] role = "sons" -> {y \in People : Parent(k, x, y) /\ Male(k, y)}
      [] role = "children" -> {y \in People : Parent(k, x, y)}

\* The line that names everybody who satisfies the role, or says that nobody
\* is known.
FullAnswer(k, role, x) ==
    LET found == Holders(k, role, x)
        single == role \in {"mother", "father"}
    IN  IF found = {}
        THEN IF single
             THEN "I don't know who the " \o role \o " of " \o capitalize(x) \o " is."
             ELSE "I don't know the " \o role \o " of " \o capitalize(x) \o "."
        ELSE "The " \o role \o " of " \o capitalize(x)
                 \o (IF single THEN " is " ELSE " are: ") \o Listing(found) \o "."

\* C15: every "Who is/are the {role} of X?" question is answered with all the
\* people who satisfy the role, each once and in ascending alphabetical
\* order, or with the "I don't know" sentence when there is nobody.
C15_EnumerationIsFull ==
    (pc = "answered" /\ stmt.kind \in WhoKinds)
        => out = FullAnswer(kb, Role(stmt.kind), Person(stmt.names[1]))

\* ------------------------------------------------------------------ C16

\* The lines a "Who ..." question about person x can be answered with when
\* its handler returns: the "I don't know" sentence, or the sentence naming
\* a set of people that is not empty.
WhoLines(role, x) ==
    LET single == role \in {"mother", "father"}
    IN  {IF single
         THEN "I don't know who the " \o role \o " of " \o capitalize(x) \o " is."
         ELSE "I don't know the " \o role \o " of " \o capitalize(x) \o "."}
        \cup {"The " \o role \o " of " \o capitalize(x)
                  \o (IF single THEN " is " ELSE " are: ") \o Listing(S) \o "." :
                  S \in (SUBSET People) \ {{}}}

\* C16: every line given to process_statement is answered with exactly one
\* of its three lines, and every line given to process_question with "Yes!",
\* "No!", an enumeration or "I don't know" sentence, or the invalid-question
\* line: no call ends in an exception, whatever the database holds.
C16_TotalDispatch ==
    pc = "answered"
        => IF ~HasQuestionMark(stmt) THEN out \in StatementLines
           ELSE IF stmt.kind \in WhoKinds
                THEN out \in WhoLines(Role(stmt.kind), Person(stmt.names[1]))
                                \cup {InvalidQuestion}
                ELSE out \in {Yes, No, InvalidQuestion}

\* A "Who ..." question about a name that is not one token, whose query
\* raises, has been answered with the invalid-question line.
C16_Witness ==
    /\ pc = "answered"
    /\ stmt.kind \in WhoKinds
    /\ ~IsTerm(Person(stmt.names[1]))
    /\ out = InvalidQuestion
    /\ kb # EmptyKb

\* ------------------------------------------------------------------ C17

\* The line is "quit" or "exit" up to case and surrounding blanks.
SentinelLine(line) == line.kind = "text" /\ line.names[1] \in {"quit", " EXIT "}

\* C17: the loop ends in a step exactly when the line read in it is "quit" or
\* "exit" up to case and surrounding blanks, and that step processes nothing;
\* once ended, no step follows; after every answer, whatever it was, the
\* loop goes back to its prompt, and at every prompt it reads a line.
C17_SessionEnds ==
    /\ [][pc' = "done" <=> (pc = "prompt" /\ SentinelLine(stmt'))]_vars
    /\ [][pc' = "done" => kb' = kb]_vars
    /\ [][pc # "done"]_vars
    /\ [](pc = "answered" => ENABLED Continue)
    /\ [](pc = "prompt" => ENABLED Quit)

\* The session has ended on " EXIT ", after statements were accepted.
C17_Witness ==
    /\ pc = "done"
    /\ stmt.names = <<" EXIT ">>
    /\ out = "Byebye:<"
    /\ kb # EmptyKb

\* ------------------------------------------------------------------ C18

\* The statement has a number of names its template does not have: not two
\* around "are siblings", not three around "are the parents of", not three
\* children before "are children of".
WrongNumberOfNames(s) ==
    \/ s.kind = "siblings" /\ Len(s.names) # 2
    \/ s.kind = "parents" /\ Len(s.names) # 3
    \/ s.kind = "children" /\ Len(s.names) # 4

\* C18: a statement with a wrong number of names is answered with the
\* invalid-statement line and changes nothing.
C18_WrongNumberOfNamesIsInvalid ==
    [][(StatementStep /\ WrongNumberOfNames(stmt'))
            => (out' = InvalidStatement /\ kb' = kb)]_vars

\* ------------------------------------------------------------------ C19

\* C19: "Are A and B siblings?" is answered "Yes!" when sibling(A, B) is
\* stored and "No!" when it is not, whatever parents the two share; a sibling
\* fact about two people appears only in the step that accepts a siblings,
\* brother or sister statement naming the two; and "Is B a son of T?" is
\* answered "Yes!" whenever parent(T, B) and male(B) are stored.
C19_SiblingsOnlyWhenStated ==
    /\ [](AnsweredQuestion("siblings?")
            => out = IF Sibling(kb, Person(stmt.names[1]), Person(stmt.names[2]))
                     THEN Yes ELSE No)
    /\ [][\A a \in People, b \in People :
            (~Sibling(kb, a, b) /\ Sibling(kb', a, b))
                => /\ StatementStep
                   /\ stmt'.kind \in SiblingKinds
                   /\ out' = Learned
                   /\ {a, b} = {Person(stmt'.names[1]), Person(stmt'.names[2])}]_vars
    /\ [](AnsweredQuestion("son?")
            => ((/\ Parent(kb, Person(stmt.names[2]), Person(stmt.names[1]))
                 /\ Male(kb, Person(stmt.names[1])))
                    => out = Yes))

\* "Are A and B siblings?" about two children of one parent has been answered
\* "No!".
C19_Witness ==
    /\ AnsweredQuestion("siblings?")
    /\ out = No
    /\ Person(stmt.names[1]) # Person(stmt.names[2])
    /\ \E p \in People : /\ Parent(kb, p, Person(stmt.names[1]))
                         /\ Parent(kb, p, Person(stmt.names[2]))

\* ------------------------------------------------------------------ C20

ChildKinds == {"child", "son", "daughter"}

\* The people one parent fact or one stored grandparent fact below a person
\* of S.
YoungerOf(k, S) ==
    {c \in People : \E p \in S : Parent(k, p, c) \/ Stored(k, "grandparent", <<p, c>>)}

RECURSIVE YoungerFrom(_, _)
YoungerFrom(k, S) ==
    LET more == YoungerOf(k, S) \ S
    IN  IF more = {} THEN S ELSE YoungerFrom(k, S \cup more)

\* a is a known ancestor of d: a chain of one or more parent facts and stored
\* grandparent facts leads from a to d.
KnownAncestor(k, a, d) == d \in YoungerFrom(k, YoungerOf(k, {a}))

\* C21: a child, son or daughter statement "X is a child of Y." about two
\* different people, with no gender conflict, is answered "That's impossible!"
\* exactly when X is already an ancestor of Y, at any depth, and parent(Y, X)
\* is not stored; when parent(Y, X) is stored it is accepted.
C21_ChildDecisionRule ==
    [][(/\ StatementStep
        /\ stmt'.kind \in ChildKinds
        /\ Person(stmt'.names[1]) \in People
        /\ Person(stmt'.names[2]) \in People
        /\ Person(stmt'.names[1]) # Person(stmt'.names[2])
        /\ ~OppositeRecorded(kb, stmt'))
            => /\ (out' = Impossible)
                    <=> /\ KnownAncestor(kb, Person(stmt'.names[1]), Person(stmt'.names[2]))
                        /\ ~Parent(kb, Person(stmt'.names[2]), Person(stmt'.names[1]))
               /\ Parent(kb, Person(stmt'.names[2]), Person(stmt'.names[1]))
                    => out' = Learned]_vars

\* ------------------------------------------------------------------ C22

\* The statement s with its two name slots exchanged.
Exchanged(s) == [kind |-> s.kind, names |-> <<s.names[2], s.names[1]>>]

\* C22: a siblings, brother or sister statement about A and B is answered
\* "That's impossible!" and stores nothing whenever parent(A,B), parent(B,A),
\* grandparent(A,B) or grandparent(B,A) holds in the state before it; the
\* same statement with A and B exchanged is rejected in that state too.
C22_SiblingConflictCheck ==
    [][(/\ StatementStep
        /\ stmt'.kind \in SiblingKinds
        /\ Len(stmt'.names) = 2
        /\ ParentOrGrandparent(kb, Person(stmt'.names[1]), Person(stmt'.names[2])))
            => /\ out' = Impossible
               /\ kb' = kb
               /\ process_statement(kb, Exchanged(stmt')) = Reject(kb)]_vars

\* A brother or sister statement "B is a brother of A." has been rejected
\* where the only thing against it is a stored grandparent fact with A as the
\* grandparent of B.
C22_Witness ==
    /\ Answered
    /\ stmt.kind \in {"brother", "sister"}
    /\ out = Impossible
    /\ Person(stmt.names[1]) # Person(stmt.names[2])
    /\ ~OppositeRecorded(kb, stmt)
    /\ Stored(kb, "grandparent", <<Person(stmt.names[2]), Person(stmt.names[1])>>)
    /\ ~Stored(kb, "grandparent", <<Person(stmt.names[1]), Person(stmt.names[2])>>)
    /\ kb.parent = EmptyBag

\* ------------------------------------------------------------------ C23

\* Statement s would make Y an ancestor of X where grandparent(X, Y) is
\* stored: "Y is a grandmother/grandfather of X.", "Y is the father/mother of
\* X." or "X is a child/son/daughter of Y.".
ReversesGrandparent(k, s) ==
    \/ /\ s.kind \in {"grandmother", "grandfather", "father", "mother"}
       /\ Stored(k, "grandparent", <<Person(s.names[2]), Person(s.names[1])>>)
    \/ /\ s.kind \in ChildKinds
       /\ Stored(k, "grandparent", <<Person(s.names[1]), Person(s.names[2])>>)

\* C23: once grandparent(X, Y) is stored, every statement that would make Y
\* an ancestor of X is answered "That's impossible!" and changes nothing, and
\* in every reachable state no two people are stored as grandparents of each
\* other.
C23_GrandparentReversal ==
    /\ [](\A a \in People, b \in People :
            ~(Stored(kb, "grandparent", <<a, b>>) /\ Stored(kb, "grandparent", <<b, a>>)))
    /\ [][(StatementStep /\ ReversesGrandparent(kb, stmt'))
            => (out' = Impossible /\ kb' = kb)]_vars

\* ------------------------------------------------------------------ C24

\* The line "Is X a <role> of Y?" is answered with in database k.
AnswerTo(k, role, x, y) ==
    process_question(k, [kind |-> role \o "?", names |-> <<x, y>>], "nobody")

\* C24: in every reachable state "Is X a brother of Y?" is answered "Yes!"
\* exactly when sibling(X, Y) and male(X) are stored, and "Is X a sister of
\* Y?" exactly when sibling(X, Y) and female(X) are stored, and with "No!"
\* otherwise; so when "X is a brother of Y." has just been accepted the
\* brother question about X and Y is "Yes!" and the sister question "No!".
C24_BrotherSisterFollowGender ==
    /\ \A x \in PlainNames, y \in PlainNames :
          /\ AnswerTo(kb, "brother", x, y)
                = IF Sibling(kb, Person(x), Person(y)) /\ Male(kb, Person(x))
                  THEN Yes ELSE No
          /\ AnswerTo(kb, "sister", x, y)
                = IF Sibling(kb, Person(x), Person(y)) /\ Female(kb, Person(x))
                  THEN Yes ELSE No
    /\ AnsweredQuestion("brother?")
          => out = AnswerTo(kb, "brother", stmt.names[1], stmt.names[2])
    /\ AnsweredQuestion("sister?")
          => out = AnswerTo(kb, "sister", stmt.names[1], stmt.names[2])
    /\ (Answered /\ stmt.kind = "brother" /\ out = Learned)
          => /\ AnswerTo(kb, "brother", stmt.names[1], stmt.names[2]) = Yes
             /\ AnswerTo(kb, "sister", stmt.names[1], stmt.names[2]) = No

\* "Is X a sister of Y?" has been answered "No!" about two people stored as
\* siblings, with X stored as male.
C24_Witness ==
    /\ AnsweredQuestion("sister?")
    /\ out = No
    /\ Sibling(kb, Person(stmt.names[1]), Person(stmt.names[2]))
    /\ Male(kb, Person(stmt.names[1]))

\* ------------------------------------------------------------------ C25

\* Two people statement s links are joined, in database k, by an undirected
\* path of parent, sibling and pibling facts.
LinksRelated(k, s) ==
    \E pr \in Proposed(s) :
        /\ pr[1] \in People
        /\ pr[2] \in People
        /\ related(k, pr[1], pr[2])

\* C25: a father, mother, parents-of, children-of, grandmother, grandfather,
\* aunt or uncle statement is accepted only if, in the state before it, no
\* two people it links are joined by an undirected path of parent, sibling
\* and pibling facts; when two of them are, it is answered "That's
\* impossible!" and changes nothing.
C25_RelatednessGate ==
    [][(StatementStep /\ stmt'.kind \in AncestorKinds)
            => /\ out' = Learned => ~LinksRelated(kb, stmt')
               /\ LinksRelated(kb, stmt') => (out' = Impossible /\ kb' = kb)]_vars

\* A father, mother, grandmother, grandfather, aunt or uncle statement about
\* two people with no stored fact between them, joined through a third
\* person, has been rejected; the subject has no gender conflict.
C25_Witness ==
    /\ Answered
    /\ stmt.kind \in AncestorKinds \ {"parents", "children"}
    /\ out = Impossible
    /\ ~OppositeRecorded(kb, stmt)
    /\ Person(stmt.names[1]) \in People
    /\ Person(stmt.names[2]) \in People
    /\ ~Linked(kb, Person(stmt.names[1]), Person(stmt.names[2]))
    /\ related(kb, Person(stmt.names[1]), Person(stmt.names[2]))

\* ------------------------------------------------------------------ C26

\* C26: in every reachable state there are no two people A and B with
\* sibling(A, B) stored and parent(A, B) or parent(B, A) stored.
C26_SiblingParentExclusive ==
    \A a \in People, b \in People :
        Sibling(kb, a, b) => ~(Parent(kb, a, b) \/ Parent(kb, b, a))

\* ------------------------------------------------------------------ C27

\* The parents of x stored as female.
MothersOf(k, x) == {p \in People : Parent(k, p, x) /\ Female(k, p)}

\* C27: in every reachable state each person has at most one parent stored as
\* male and at most one parent stored as female, so that the name printed for
\* "Who is the father/mother of X?" is the only father/mother of X.
C27_UniqueFatherAndMother ==
    /\ \A x \in People :
          /\ Cardinality(FathersOf(kb, x)) <= 1
          /\ Cardinality(MothersOf(kb, x)) <= 1
    /\ AnsweredQuestion("who father?")
          => \A p \in FathersOf(kb, Person(stmt.names[1])) :
                out = "The father of " \o capitalize(stmt.names[1]) \o " is "
                        \o capitalize(p) \o "."
    /\ AnsweredQuestion("who mother?")
          => \A p \in MothersOf(kb, Person(stmt.names[1])) :
                out = "The mother of " \o capitalize(stmt.names[1]) \o " is "
                        \o capitalize(p) \o "."

\* ------------------------------------------------------------------ C28

\* The kinds of statement that assert the gender of the subject and then one
\* fact about the subject and the object.
TwoFactKinds ==
    {"father", "mother", "son", "daughter", "grandmother", "grandfather",
     "aunt", "uncle"}

\* The subject of statement s is a name of one token and its object is not.
ObjectIsNoToken(s) ==
    /\ IsTerm(Person(s.names[1]))
    /\ ~IsTerm(Person(s.names[2]))

\* C28: a father, mother, son, daughter, grandmother, grandfather, aunt or
\* uncle statement whose subject has no gender conflict and whose object is
\* not a name of one token is answered "That's impossible!" and stores
\* nothing: the gender fact of the subject is in the database afterwards only
\* as often as it was before.
C28_CommitFailureIsAllOrNothing ==
    [][(/\ StatementStep
        /\ stmt'.kind \in TwoFactKinds
        /\ ObjectIsNoToken(stmt')
        /\ ~OppositeRecorded(kb, stmt'))
            => /\ out' = Impossible
               /\ kb'.male = kb.male
               /\ kb'.female = kb.female]_vars

====
